---------------------------- MODULE Spec2Model ----------------------------
(***************************************************************************)
(* HFT market-making dashboard (script.js) and the HFTEngine it drives.    *)
(*                                                                         *)
(* The dashboard (script.js) is modelled from its code.  The engine itself *)
(* (the Rust crate compiled to ./pkg/hft_market_maker.js) is not part of   *)
(* the sources; its operations are modelled from the design document and   *)
(* from the formulas README.md gives for it.                               *)
(*                                                                         *)
(* Numbers are exact scaled integers:                                      *)
(*   prices            price units (a Px adds an exact offset in 1/PxQ)    *)
(*   spreads           tenths of a basis point                             *)
(*   returns           1e-4 (basis points)                                 *)
(*   variances         1e-8                                                *)
(*   volatility        1e-4, annualized                                    *)
(*   position size     units of $100,000                                   *)
(*   ratios            pairs <<numerator, denominator>>                    *)
(***************************************************************************)
EXTENDS Integers, Sequences, FiniteSets, TLC

VARIABLES
    hft,        \* the HFTEngine's state bundle (book, volatility, position, fills)
    result,     \* what the last engine.process_market_data call returned
    market_data,\* the tick handed to that call
    cycles,     \* number of engine calls made so far (bounds the run)
    nfills,     \* number of fills applied so far (bounds the run)
    risk_in,    \* the five inputs of the risk score
    risk_metrics, \* the RiskSnapshot computed from them
    backtest_run, \* the last backtest click: what ran and how it ended
    backtest_display, \* the backtest statistics shown on the page
    app,        \* how far initApp has come
    engine,     \* script.js `engine`: null until initApp constructs it
    isRunning,  \* script.js `isRunning`
    dataGenerationInterval, \* script.js `dataGenerationInterval`
    intervals,  \* number of setInterval timers that have not been cleared
    status,     \* what updateStatus last put on the status indicator
    startupTimeout, \* initApp's setTimeout: "none", "pending" or "fired"
    charts,     \* the four Chart objects: "null" until initCharts has run
    chartData,  \* lengths of priceData, pnlData, volatilityData, latencyData
    liveStats,  \* cumulativePnL, totalTradesCount, winningTrades
    engine_calls, \* the calls and returns of engine methods in the last handler
                  \* that called the engine, in the order they happened
    chat        \* the server's POST /chat requests so far, each with the
                \* responses it got

vars == <<hft, result, market_data, cycles, nfills, risk_in, risk_metrics,
          backtest_run, backtest_display, app, engine, isRunning,
          dataGenerationInterval, intervals, status, startupTimeout, charts,
          chartData, liveStats, engine_calls, chat>>

timer_vars == <<dataGenerationInterval, intervals>>

page_vars == <<app, engine, isRunning, timer_vars, status, startupTimeout,
               charts>>

live_vars == <<chartData, liveStats, engine_calls>>

dashboard_vars == <<page_vars, live_vars>>

engine_vars == <<hft, result, market_data, cycles, nfills>>

risk_vars == <<risk_in, risk_metrics>>

server_vars == <<chat>>

backtest_vars == <<backtest_run, backtest_display>>

---------------------------------------------------------------------------
(* Arithmetic helpers *)

Abs(x) == IF x < 0 THEN -x ELSE x

Sign(x) == IF x > 0 THEN 1 ELSE IF x < 0 THEN -1 ELSE 0

Min(a, b) == IF a <= b THEN a ELSE b

Max(a, b) == IF a >= b THEN a ELSE b

\* Division truncating toward zero, as a float-to-fixed conversion does.
TruncDiv(a, b) == IF a >= 0 THEN a \div b ELSE -((-a) \div b)

RECURSIVE IsqrtBetween(_, _, _)
IsqrtBetween(n, lo, hi) ==
    IF lo >= hi THEN lo
    ELSE LET m == (lo + hi + 1) \div 2
         IN  IF m * m <= n THEN IsqrtBetween(n, m, hi)
             ELSE IsqrtBetween(n, lo, m - 1)

\* floor(sqrt(n)) for 0 <= n < 2^30
Isqrt(n) == IsqrtBetween(n, 0, 32767)

RECURSIVE Gcd(_, _)
Gcd(a, b) == IF b = 0 THEN a ELSE Gcd(b, a % b)

\* A ratio <<num, den>> (den > 0) in lowest terms.
Reduced(r) ==
    LET g == Gcd(Abs(r[1]), r[2])
    IN  IF g = 0 THEN r ELSE <<r[1] \div g, r[2] \div g>>

RECURSIVE SumSeq(_)
SumSeq(s) == IF s = << >> THEN 0 ELSE Head(s) + SumSeq(Tail(s))

---------------------------------------------------------------------------
(* Bounds of the model *)

MaxCycles == 3          \* engine calls per run
MaxFills == 3           \* fills applied per run
FillWindow == 2         \* length of the adverse-selection sliding window
MaxDataPoints == 3      \* largest value of the dataPoints input (simple backtest)
MaxBatch == 2           \* largest value of the dataPoints input (engine ticks)
MaxLiveTicks == 1       \* engine calls the dashboard makes per run
RiskScale == 2          \* risk ratios are counted in 1/RiskScale
MaxRatio == 3           \* largest risk ratio, in 1/RiskScale

---------------------------------------------------------------------------
(* Engine configuration (README.md, Configuration) *)

target_spread_bps == 100        \* 10.0 bps, in tenths of a bps
min_spread_bps == 20            \* 2.0 bps
max_spread_bps == 500           \* 50.0 bps
default_quote_size == 100
skew_factor_x10 == 5            \* skew_factor 0.5
max_position_size == 10         \* $1M, in units of $100k
gross_exposure_limit == 150     \* $15M
net_exposure_limit == 30        \* $3M
concentration_limit_pct == 30   \* 30% of portfolio per position

\* GARCH(1,1) constants (README.md): omega 1e-6 in 1e-8 units, alpha 0.1, beta 0.85
garch_omega == 100
garch_alpha_pct == 10
garch_beta_pct == 85
ewma_decay_pct == 94
annualization_factor == 252

\* Parameters the design names without a value
depth_levels == 2               \* synthetic depth levels per side
tick_increment == 1             \* price offset per synthetic level
depth_decay_pct == 50           \* size decay per synthetic level
portfolio_value == 50           \* $5M, in units of $100k
max_deviation == 10             \* inventory deviation that floors the size factor
volatility_spread_factor_x1000 == 5
adverse_threshold_pct == 30
penalty_factor_x10 == 20        \* penalty_factor 2.0
PxQ == 400000                   \* a Px offset counts 1/PxQ price units

---------------------------------------------------------------------------
(* MarketTick *)

Tick(bid, ask, bid_size, ask_size) ==
    [symbol |-> "NIFTY50", timestamp |-> 0, last_price |-> bid,
     bid_price |-> bid, ask_price |-> ask,
     bid_size |-> bid_size, ask_size |-> ask_size, volume |-> 1000]

NoTick == Tick(0, 0, 0, 0)

---------------------------------------------------------------------------
(* OrderBookEngine *)

RECURSIVE Decayed(_, _)
Decayed(size, i) ==
    IF i = 0 THEN size ELSE (Decayed(size, i - 1) * depth_decay_pct) \div 100

EmptyBook == [bids |-> << >>, asks |-> << >>]

\* update(tick): the snapshot is replaced from the tick's best bid/ask and sizes;
\* deeper levels are synthesised (bids descending, asks ascending).
update(tick) ==
    [bids |-> [i \in 1..depth_levels |->
                  [price |-> tick.bid_price - (i - 1) * tick_increment,
                   quantity |-> Decayed(tick.bid_size, i - 1),
                   level_index |-> i - 1]],
     asks |-> [i \in 1..depth_levels |->
                  [price |-> tick.ask_price + (i - 1) * tick_increment,
                   quantity |-> Decayed(tick.ask_size, i - 1),
                   level_index |-> i - 1]]]

total_volume(levels) == SumSeq([i \in 1..Len(levels) |-> levels[i].quantity])

\* imbalance() without its empty-book case.
imbalance_unguarded(book) ==
    <<total_volume(book.bids) - total_volume(book.asks),
      total_volume(book.bids) + total_volume(book.asks)>>

\* imbalance(): (bid_vol - ask_vol) / (bid_vol + ask_vol) as <<num, den>>;
\* 0 when both sides are empty.
imbalance(book) ==
    LET bid_vol == total_volume(book.bids)
        ask_vol == total_volume(book.asks)
    IN  IF bid_vol + ask_vol = 0 THEN <<0, 1>>
        ELSE <<bid_vol - ask_vol, bid_vol + ask_vol>>

\* The boundary check with the sizes forgotten.
valid_tick_prices_only(tick) == tick.bid_price < tick.ask_price

\* Input boundary: crossed prices and non-positive sizes are malformed.
valid_tick(tick) ==
    /\ tick.bid_price < tick.ask_price
    /\ tick.bid_size > 0
    /\ tick.ask_size > 0

---------------------------------------------------------------------------
(* VolatilityModel *)

InitVolatility ==
    [ewma_variance |-> 0, garch_variance |-> 0, last_return |-> 0, regime |-> "Low"]

\* Return between two mid prices (both doubled), in 1e-4.
mid_return(prev_mid2, mid2) == TruncDiv((mid2 - prev_mid2) * 10000, prev_mid2)

\* Annualized volatility sqrt(var * annualization_factor), in 1e-4. The
\* factor is 4 * 63: floor(sqrt(4 * m)) is taken from floor(sqrt(m)), which
\* keeps the product within the integers' width for a return of -100%.
annualized_volatility(variance) ==
    LET m == variance * (annualization_factor \div 4)
        s == Isqrt(m)
    IN  IF m >= s * s + s + 1 THEN 2 * s + 1 ELSE 2 * s

\* <10% Low, 10-20% Normal, 20-40% High, >40% Extreme
classify_regime(volatility) ==
    IF volatility < 1000 THEN "Low"
    ELSE IF volatility < 2000 THEN "Normal"
    ELSE IF volatility <= 4000 THEN "High"
    ELSE "Extreme"

ewma_update(variance, r) ==
    (ewma_decay_pct * variance + (100 - ewma_decay_pct) * r * r) \div 100

\* A GARCH update that forgets the prior variance.
garch_update_memoryless(variance, eps) ==
    garch_omega + (garch_alpha_pct * eps * eps) \div 100

\* sigma^2(t) = omega + alpha * eps^2(t-1) + beta * sigma^2(t-1)
garch_update(variance, eps) ==
    garch_omega + (garch_alpha_pct * eps * eps + garch_beta_pct * variance) \div 100

\* An update that stores the regime of the variance it started from.
volatility_update_stale_regime(vol, r) ==
    [ewma_variance |-> ewma_update(vol.ewma_variance, r),
     garch_variance |-> garch_update(vol.garch_variance, r),
     last_return |-> r,
     regime |-> classify_regime(annualized_volatility(vol.ewma_variance))]

\* One update of the VolatilityState with the return r; the regime is
\* derived from the variance just computed.
volatility_update(vol, r) ==
    LET ewma == ewma_update(vol.ewma_variance, r)
    IN  [ewma_variance |-> ewma,
         garch_variance |-> garch_update(vol.garch_variance, r),
         last_return |-> r,
         regime |-> classify_regime(annualized_volatility(ewma))]

\* The update on a new mid price with the zero denominator let through: the
\* return is not a number and neither are the variances computed from it.  A
\* variance that is not a number is held as -1.
return_update_unguarded(vol, prev_mid2, mid2) ==
    IF prev_mid2 = 0
    THEN [vol EXCEPT !.ewma_variance = -1, !.garch_variance = -1]
    ELSE volatility_update(vol, mid_return(prev_mid2, mid2))

\* The update on a new mid price.  The return over a mid price of 0 has no
\* value: the computation fails and the state stays at its prior value.
return_update(vol, prev_mid2, mid2) ==
    IF prev_mid2 = 0 THEN vol
    ELSE volatility_update(vol, mid_return(prev_mid2, mid2))

---------------------------------------------------------------------------
(* RiskManager *)

InitPosition == [quantity |-> 0]

\* apply_fill(fill) that cuts the quantity off at the maximum position size.
apply_fill_clamped(position, fill) ==
    [position EXCEPT !.quantity =
        IF fill.side = "buy" THEN Min(@ + fill.quantity, max_position_size)
        ELSE Max(@ - fill.quantity, -max_position_size)]

\* apply_fill(fill): the only path that changes the position.
apply_fill(position, fill) ==
    [position EXCEPT !.quantity =
        IF fill.side = "buy" THEN @ + fill.quantity ELSE @ - fill.quantity]

gross_exposure(position) == Abs(position.quantity)

net_exposure(position) == position.quantity

\* check_limits() that looks at the exposures only.
check_limits_exposure_only(position) ==
    \/ gross_exposure(position) > gross_exposure_limit
    \/ Abs(net_exposure(position)) > net_exposure_limit

\* check_limits(): TRUE is the hard-block signal LimitBreached.
check_limits(position) ==
    \/ Abs(position.quantity) > max_position_size
    \/ gross_exposure(position) > gross_exposure_limit
    \/ Abs(net_exposure(position)) > net_exposure_limit
    \/ Abs(position.quantity) * 100 > concentration_limit_pct * portfolio_value

\* README, Risk Score Calculation.  The inputs are the ratios VaR_95/VaR_limit,
\* drawdown/max_drawdown, leverage/leverage_limit, concentration_risk and
\* gross_exposure/exposure_limit, each in 1/RiskScale; so is the score.
weighted_sum(in) ==
    in.var_95 * 25 + in.drawdown * 20 + in.leverage * 20
        + in.concentration * 15 + in.gross_exposure * 10

\* The score with the cap at 100 forgotten.
risk_score_uncapped(in) == weighted_sum(in)

\* The score with the concentration term subtracted instead of added.
risk_score_sign_slip(in) ==
    Min(100 * RiskScale, weighted_sum(in) - 2 * in.concentration * 15)

risk_score(in) == Min(100 * RiskScale, weighted_sum(in))

\* The RiskSnapshot recomputed from the ratios `in` over the limits `limits`.
\* A ratio over a limit of 0 has no value: the computation fails and the
\* snapshot keeps its prior score.
risk_snapshot(prior, in, limits) ==
    IF \E f \in DOMAIN limits : limits[f] = 0
    THEN [risk_score |-> prior.risk_score, trigger |-> "failed"]
    ELSE [risk_score |-> risk_score(in), trigger |-> "computed"]

---------------------------------------------------------------------------
(* MarketMakerEngine *)

\* A price mid2/2 + off/PxQ, kept exact.
Px(mid2, off) == [mid2 |-> mid2, off |-> off]

PxLess(p, q) == (p.mid2 - q.mid2) * (PxQ \div 2) + (p.off - q.off) < 0

clamp(x, lo, hi) == Max(lo, Min(x, hi))

\* README, Dynamic Spread Calculation: volatility * volatility_factor * 10000 bps
volatility_term(volatility) == (volatility * volatility_spread_factor_x1000) \div 100

\* The sliding window of recent fills, newest last.
record_fill(fills, fill) ==
    LET all == Append(fills, fill.is_adverse)
    IN  IF Len(all) > FillWindow THEN Tail(all) ELSE all

adverse_fills(fills) == Cardinality({i \in 1..Len(fills) : fills[i]})

\* The penalty with the threshold not subtracted.
adverse_selection_penalty_no_threshold(fills) ==
    LET total == Len(fills)
        adverse == adverse_fills(fills)
    IN  IF total > 0 /\ adverse * 100 > adverse_threshold_pct * total
        THEN (adverse * 100 * 2 * penalty_factor_x10) \div (100 * total)
        ELSE 0

\* README, Fill Rate Analysis: (adverse_rate - threshold) * 2.0 * penalty_factor
adverse_selection_penalty(fills) ==
    LET total == Len(fills)
        adverse == adverse_fills(fills)
    IN  IF total > 0 /\ adverse * 100 > adverse_threshold_pct * total
        THEN ((adverse * 100 - adverse_threshold_pct * total) * 2 * penalty_factor_x10)
                 \div (100 * total)
        ELSE 0

\* The spread with the upper clamp forgotten.
dynamic_spread_no_ceiling(volatility, book_adjustment, fills) ==
    Max(min_spread_bps,
        target_spread_bps + volatility_term(volatility) + book_adjustment
            + adverse_selection_penalty(fills))

dynamic_spread(volatility, book_adjustment, fills) ==
    clamp(target_spread_bps + volatility_term(volatility) + book_adjustment
              + adverse_selection_penalty(fills),
          min_spread_bps, max_spread_bps)

\* README, Inventory Skew Model, as an offset in 1/PxQ price units.
inventory_skew(inventory) ==
    TruncDiv(inventory * skew_factor_x10 * (PxQ \div 10), max_position_size)

\* half_spread = mid * spread / 10000 / 2, as an offset in 1/PxQ price units.
half_spread(mid2, spread) == mid2 * spread

\* The inventory factor without its floor.
inventory_factor_unfloored(inventory) ==
    Reduced(<<10 * max_deviation - 10 * Abs(inventory), 10 * max_deviation>>)

\* README, Quote Size Optimization; both factors as <<num, den>>.
inventory_factor(inventory) ==
    Reduced(<<10 * max_deviation - Min(10 * Abs(inventory), 8 * max_deviation),
              10 * max_deviation>>)

volatility_factor(volatility) ==
    IF 10 * 10000 >= 3 * (10000 + 5 * volatility)
    THEN Reduced(<<10000, 10000 + 5 * volatility>>)
    ELSE <<3, 10>>

adjusted_size(base_size, inventory, volatility) ==
    LET i == inventory_factor(inventory)
        v == volatility_factor(volatility)
    IN  Reduced(<<base_size * i[1] * v[1], i[2] * v[2]>>)

\* The quote with the ask on the wrong side of the mid.
generate_quote_sign_slip(tick, spread, inventory, volatility) ==
    LET mid2 == tick.bid_price + tick.ask_price
        half == half_spread(mid2, spread)
        skew == inventory_skew(inventory)
        size == adjusted_size(default_quote_size, inventory, volatility)
    IN  [symbol |-> tick.symbol,
         bid_price |-> Px(mid2, skew - half),
         ask_price |-> Px(mid2, skew - half),
         bid_size |-> size,
         ask_size |-> size]

generate_quote(tick, spread, inventory, volatility) ==
    LET mid2 == tick.bid_price + tick.ask_price
        half == half_spread(mid2, spread)
        skew == inventory_skew(inventory)
        size == adjusted_size(default_quote_size, inventory, volatility)
    IN  [symbol |-> tick.symbol,
         bid_price |-> Px(mid2, skew - half),
         ask_price |-> Px(mid2, skew + half),
         bid_size |-> size,
         ask_size |-> size]

InitEngine ==
    [book |-> EmptyBook, volatility |-> InitVolatility, position |-> InitPosition,
     fills |-> << >>, has_mid |-> FALSE, mid2 |-> 0]

NoResult ==
    [kind |-> "none", quotes |-> << >>, limit_breached |-> FALSE, spread |-> 0,
     volatility |-> 0]

\* One decision cycle: the next engine state and the returned result.
process_market_data(e, tick, book_adjustment) ==
    IF ~valid_tick(tick)
    THEN [state |-> e,
          result |-> [NoResult EXCEPT !.kind = "ValidationError"]]
    ELSE
        LET mid2 == tick.bid_price + tick.ask_price
            vol == IF e.has_mid
                   THEN return_update(e.volatility, e.mid2, mid2)
                   ELSE e.volatility
            sigma == annualized_volatility(vol.ewma_variance)
            breached == check_limits(e.position)
            spread == dynamic_spread(sigma, book_adjustment, e.fills)
        IN  [state |-> [e EXCEPT !.book = update(tick), !.volatility = vol,
                                 !.has_mid = TRUE, !.mid2 = mid2],
             result |-> [kind |-> "ok",
                         quotes |-> IF breached THEN << >>
                                    ELSE <<generate_quote(tick, spread,
                                               e.position.quantity, sigma)>>,
                         limit_breached |-> breached,
                         spread |-> IF breached THEN 0 ELSE spread,
                         volatility |-> sigma]]

---------------------------------------------------------------------------
(* script.js: runSimpleBacktest *)

\* A JavaScript number: finite (an exact ratio <<num, den>>), NaN or Infinity.
Finite(r) == [kind |-> "finite", value |-> Reduced(r)]

Zero == Finite(<<0, 1>>)

Infinity == [kind |-> "Infinity", value |-> <<1, 0>>]

NaN == [kind |-> "NaN", value |-> <<0, 0>>]

\* a / b for a ratio a >= 0 or < 0 and a ratio b >= 0, as JavaScript divides.
Divide(a, b) ==
    IF b[1] = 0
    THEN IF a[1] = 0 THEN NaN ELSE Infinity
    ELSE Finite(<<a[1] * b[2], a[2] * b[1]>>)

RatioGreater(a, b) == a[1] * b[2] > b[1] * a[2]

InitialCapital == 1000000

\* What Math.random() decides in one pass of the loop: whether a trade
\* happens and its tradePnL (between -450 and 550).  The price change is
\* computed and never read.
TradePnLs == {-40, 0, 50}

Outcomes ==
    {[trade |-> FALSE, tradePnL |-> 0]} \cup [trade : {TRUE}, tradePnL : TradePnLs]

InitialRun ==
    [capital |-> InitialCapital, peakCapital |-> InitialCapital,
     maxDrawdown |-> <<0, 1>>, totalTrades |-> 0, winningTrades |-> 0,
     totalPnL |-> 0, returns |-> << >>]

\* One pass of the loop body.
simulate_step(run, o) ==
    IF ~o.trade THEN run
    ELSE
        LET capital == run.capital + o.tradePnL
            peakCapital == IF capital > run.peakCapital THEN capital
                           ELSE run.peakCapital
            drawdown == <<peakCapital - capital, peakCapital>>
        IN  [capital |-> capital,
             peakCapital |-> peakCapital,
             maxDrawdown |-> IF RatioGreater(drawdown, run.maxDrawdown)
                             THEN Reduced(drawdown) ELSE run.maxDrawdown,
             totalTrades |-> run.totalTrades + 1,
             winningTrades |-> run.winningTrades
                                 + (IF o.tradePnL > 0 THEN 1 ELSE 0),
             totalPnL |-> run.totalPnL + o.tradePnL,
             returns |-> Append(run.returns, capital - InitialCapital)]

RECURSIVE simulate(_, _)
simulate(run, outcomes) ==
    IF outcomes = << >> THEN run
    ELSE simulate(simulate_step(run, Head(outcomes)), Tail(outcomes))

\* Returns are counted in 1e-6.  n^2 times their population variance:
returns_variance(returns) ==
    LET n == Len(returns)
        sum == SumSeq(returns)
        sumsq == SumSeq([i \in 1..n |-> returns[i] * returns[i]])
    IN  IF n > 0 THEN n * sumsq - sum * sum ELSE 0

win_rate(run) ==
    IF run.totalTrades > 0 THEN <<run.winningTrades, run.totalTrades>> ELSE <<0, 1>>

\* avgReturn / sqrt(variance) with the variance > 0 test forgotten.  A Sharpe
\* or Sortino ratio x is held as sign(x) * x^2, which is rational.
sharpe_ratio_unguarded(returns) ==
    LET sum == SumSeq(returns)
    IN  Divide(<<Sign(sum) * sum * sum, 1>>, <<returns_variance(returns), 1>>)

sharpe_ratio(returns) ==
    LET sum == SumSeq(returns)
        variance == returns_variance(returns)
    IN  IF variance > 0 THEN Finite(<<Sign(sum) * sum * sum, variance>>) ELSE Zero

\* totalPnL / |totalPnL - totalPnL * winRate|
profit_factor(run) ==
    LET winRate == win_rate(run)
    IN  IF run.totalPnL > 0
        THEN Divide(<<run.totalPnL, 1>>,
                    <<Abs(run.totalPnL * winRate[2] - run.totalPnL * winRate[1]),
                      winRate[2]>>)
        ELSE Zero

calmar_ratio(run) ==
    IF run.maxDrawdown[1] > 0
    THEN Divide(<<run.capital - InitialCapital, InitialCapital>>, run.maxDrawdown)
    ELSE Zero

\* sharpeRatio * 0.8, on the signed square
sortino_ratio(sharpe) ==
    IF sharpe.kind = "finite"
    THEN Finite(<<sharpe.value[1] * 16, sharpe.value[2] * 25>>)
    ELSE sharpe

\* The metrics computed after the loop.
metrics(run) ==
    [totalReturn |-> Finite(<<run.capital - InitialCapital, InitialCapital>>),
     sharpeRatio |-> sharpe_ratio(run.returns),
     maxDrawdown |-> Finite(run.maxDrawdown),
     profitFactor |-> profit_factor(run),
     calmarRatio |-> calmar_ratio(run),
     sortinoRatio |-> sortino_ratio(sharpe_ratio(run.returns)),
     totalTrades |-> run.totalTrades,
     winRate |-> Finite(win_rate(run))]

\* The tradePnL of each trade of the loop, in the order the trades happened.
RECURSIVE trade_pnls(_)
trade_pnls(outcomes) ==
    IF outcomes = << >> THEN << >>
    ELSE (IF Head(outcomes).trade THEN <<Head(outcomes).tradePnL>> ELSE << >>)
             \o trade_pnls(Tail(outcomes))

\* runSimpleBacktest(dataPoints): the loop runs max(dataPoints, 0) times.
runSimpleBacktest(outcomes) == metrics(simulate(InitialRun, outcomes))

Iterations(dataPoints) == IF dataPoints > 0 THEN dataPoints ELSE 0

NoRun ==
    [kind |-> "none", dataPoints |-> 0, volatility |-> 0, outcome |-> "none",
     reported |-> "none", processed |-> << >>, trades |-> << >>]

\* The eight backtest statistics on the page.  The totalTrades and winRate
\* elements are also written by updateMetrics and by Reset System: live holds
\* what these wrote there since the last backtest, if anything.
NoDisplay == [source |-> "none", stats |-> << >>, live |-> "none"]

NoChartData ==
    [priceData |-> 0, pnlData |-> 0, volatilityData |-> 0, latencyData |-> 0]

NoLiveStats == [cumulativePnL |-> 0, totalTradesCount |-> 0, winningTrades |-> 0]

\* The page as loaded, before initApp has finished.
PageLoaded ==
    /\ app = "loading"
    /\ engine = "null"
    /\ isRunning = FALSE
    /\ dataGenerationInterval = "null"
    /\ intervals = 0
    /\ status = [status |-> "initial", text |-> ""]
    /\ startupTimeout = "none"
    /\ charts = "null"
    /\ chartData = NoChartData
    /\ liveStats = NoLiveStats
    /\ engine_calls = << >>
    /\ chat = << >>

---------------------------------------------------------------------------
(* The risk score on its own: any non-negative inputs *)

RiskFields == {"var_95", "drawdown", "leverage", "concentration", "gross_exposure"}

\* concentration_risk is a share of the portfolio: at most 1.
RiskInputs ==
    [var_95 : 0..MaxRatio, drawdown : 0..MaxRatio, leverage : 0..MaxRatio,
     concentration : 0..RiskScale, gross_exposure : 0..MaxRatio]

NoRisk ==
    [var_95 |-> 0, drawdown |-> 0, leverage |-> 0, concentration |-> 0,
     gross_exposure |-> 0]

RiskInit ==
    /\ risk_in \in RiskInputs
    /\ risk_metrics = [risk_score |-> risk_score(risk_in), trigger |-> "none"]
    /\ hft = InitEngine
    /\ result = NoResult
    /\ market_data = NoTick
    /\ cycles = 0
    /\ nfills = 0
    /\ backtest_run = NoRun
    /\ backtest_display = NoDisplay
    /\ PageLoaded

\* One input changes and the snapshot is computed afresh; trigger records
\* whether the input rose or fell.
ComputeRisk ==
    /\ \E f \in RiskFields, v \in 0..MaxRatio :
          /\ [risk_in EXCEPT ![f] = v] \in RiskInputs
          /\ v # risk_in[f]
          /\ risk_in' = [risk_in EXCEPT ![f] = v]
          /\ risk_metrics' = [risk_score |-> risk_score(risk_in'),
                               trigger |-> IF v > risk_in[f] THEN "raised"
                                           ELSE "lowered"]
    /\ UNCHANGED <<engine_vars, backtest_vars, dashboard_vars, server_vars>>

RiskNext == ComputeRisk

SpecRisk == RiskInit /\ [][RiskNext]_vars

\* The five sub-scores, in 1/RiskScale points.
SubScores(in) ==
    [var_95 |-> in.var_95 * 25, drawdown |-> in.drawdown * 20,
     leverage |-> in.leverage * 20, concentration |-> in.concentration * 15,
     gross_exposure |-> in.gross_exposure * 10]

Weights ==
    [var_95 |-> 25, drawdown |-> 20, leverage |-> 20, concentration |-> 15,
     gross_exposure |-> 10]

\* C6 as stated: the score is within [0, 100] and every sub-score is capped
\* at its weight (25, 20, 20, 15, 10) before the sum.
C6_SubScoresCapped ==
    risk_metrics.trigger # "none"
    => /\ risk_metrics.risk_score >= 0
       /\ risk_metrics.risk_score <= 100 * RiskScale
       /\ \A f \in RiskFields : SubScores(risk_in)[f] <= Weights[f] * RiskScale

\* C6 amended: the score is never negative and never above 100; it is the
\* weighted sum of the five ratios capped at 100 as a whole.
C6_ScoreWithin100 ==
    /\ risk_metrics.risk_score >= 0
    /\ risk_metrics.risk_score <= 100 * RiskScale
    /\ risk_metrics.risk_score
          = Min(100 * RiskScale,
                SubScores(risk_in).var_95 + SubScores(risk_in).drawdown
                  + SubScores(risk_in).leverage + SubScores(risk_in).concentration
                  + SubScores(risk_in).gross_exposure)

\* C6 witness: inputs whose weighted sum is above 100 and whose score is 100.
C6_Witness ==
    /\ risk_metrics.trigger = "raised"
    /\ weighted_sum(risk_in) > 100 * RiskScale
    /\ risk_metrics.risk_score = 100 * RiskScale
    /\ risk_in.var_95 > RiskScale

\* Exactly input f is higher in b than in a, the other four are equal.
OneRaised(a, b, f) ==
    /\ b[f] > a[f]
    /\ \A g \in RiskFields \ {f} : b[g] = a[g]

\* C7: raising one of the five inputs with the other four held fixed never
\* lowers the score.
C7_Monotone ==
    [][(\E f \in RiskFields : OneRaised(risk_in, risk_in', f))
          => risk_metrics'.risk_score >= risk_metrics.risk_score]_vars

\* C7 witness: a score strictly between 0 and 100 that a raised input can
\* still move.
C7_Witness ==
    /\ risk_metrics.trigger = "raised"
    /\ risk_metrics.risk_score > 0
    /\ risk_metrics.risk_score < 100 * RiskScale
    /\ risk_in.concentration > 0
    /\ risk_in.drawdown > 0

---------------------------------------------------------------------------
(* The engine on its own: any caller, any tick, any fill *)

WellFormedTicks ==
    {Tick(98, 99, 200, 200), Tick(98, 103, 600, 200), Tick(80, 81, 200, 600)}

MalformedTicks ==
    {Tick(100, 99, 200, 200), Tick(98, 99, 0, 200), Tick(98, 99, 200, -100)}

EngineTicks == WellFormedTicks \cup MalformedTicks

\* The order-book term of the spread has no stated form: any widening.
BookAdjustments == {0, 450}

EngineFills ==
    [price : {100}, quantity : {9}, side : {"buy", "sell"}, is_adverse : BOOLEAN]

EngineInit ==
    /\ hft = InitEngine
    /\ result = NoResult
    /\ market_data = NoTick
    /\ cycles = 0
    /\ nfills = 0
    /\ risk_in = NoRisk
    /\ risk_metrics = [risk_score |-> 0, trigger |-> "none"]
    /\ backtest_run = NoRun
    /\ backtest_display = NoDisplay
    /\ PageLoaded

\* One call of engine.process_market_data by any caller.
process_market_data_call(ticks, adjustments) ==
    /\ cycles < MaxCycles
    /\ \E tick \in ticks, adj \in adjustments :
          LET out == process_market_data(hft, tick, adj)
          IN  /\ hft' = out.state
              /\ result' = out.result
              /\ market_data' = tick
    /\ cycles' = cycles + 1
    /\ UNCHANGED <<nfills, risk_vars, server_vars, backtest_vars, dashboard_vars>>

ProcessMarketData == process_market_data_call(EngineTicks, BookAdjustments)

ApplyFill ==
    /\ nfills < MaxFills
    /\ \E fill \in EngineFills :
          hft' = [hft EXCEPT !.position = apply_fill(@, fill),
                             !.fills = record_fill(@, fill)]
    /\ nfills' = nfills + 1
    /\ UNCHANGED <<result, market_data, cycles, risk_vars, server_vars, backtest_vars,
                   dashboard_vars>>

EngineNext == ProcessMarketData \/ ApplyFill

SpecEngine == EngineInit /\ [][EngineNext]_vars

---------------------------------------------------------------------------
(* Properties of the engine *)

Quoted == result.kind = "ok" /\ result.quotes # << >>

\* Width of a quote in 1/PxQ price units (both prices share the mid).
QuoteWidth(q) == q.ask_price.off - q.bid_price.off

OverLimit(position) ==
    \/ Abs(position.quantity) > max_position_size
    \/ Abs(position.quantity) > gross_exposure_limit
    \/ Abs(position.quantity) > net_exposure_limit
    \/ Abs(position.quantity) * 100 > concentration_limit_pct * portfolio_value

Malformed(tick) ==
    \/ tick.bid_price > tick.ask_price
    \/ tick.bid_size <= 0
    \/ tick.ask_size <= 0

\* C3: a tick with crossed prices or a non-positive size is rejected with a
\* validation error and leaves the book, volatility state and position as
\* they were.
C3_MalformedRejected ==
    [][(cycles' # cycles /\ Malformed(market_data'))
          => (result'.kind = "ValidationError" /\ hft' = hft)]_vars

\* C3 witness: a crossed tick was rejected by an engine that already held a
\* book and a volatility estimate.
C3_Witness ==
    /\ market_data.bid_price > market_data.ask_price
    /\ result.kind = "ValidationError"
    /\ hft.book # EmptyBook
    /\ hft.volatility.ewma_variance > 0

\* C8: the imbalance of every reachable book lies in [-1, 1], is 0 when the
\* two sides hold the same volume, and is 0 when both sides are empty.
C8_ImbalanceRange ==
    LET im == imbalance(hft.book)
        bid_vol == total_volume(hft.book.bids)
        ask_vol == total_volume(hft.book.asks)
    IN  /\ im[2] > 0
        /\ -im[2] <= im[1] /\ im[1] <= im[2]
        /\ (bid_vol = ask_vol => im[1] = 0)
        /\ (hft.book = EmptyBook => im = <<0, 1>>)

\* C8 witness: a populated book whose two sides hold the same volume.
C8_Witness ==
    /\ hft.book # EmptyBook
    /\ total_volume(hft.book.bids) = total_volume(hft.book.asks)
    /\ total_volume(hft.book.bids) > 0

\* C9: the spread of every emitted quote lies in [min_spread_bps,
\* max_spread_bps]: the quoted width is mid * spread / 10000.
C9_SpreadClamped ==
    \A i \in 1..Len(result.quotes) :
        LET q == result.quotes[i]
        IN  /\ QuoteWidth(q) >= 2 * q.bid_price.mid2 * min_spread_bps
            /\ QuoteWidth(q) <= 2 * q.bid_price.mid2 * max_spread_bps

\* C9 witness: a quote whose unclamped spread was above the maximum.
C9_Witness ==
    /\ Quoted
    /\ target_spread_bps + volatility_term(result.volatility)
           + adverse_selection_penalty(hft.fills) > max_spread_bps
    /\ QuoteWidth(result.quotes[1]) = 2 * result.quotes[1].bid_price.mid2 * max_spread_bps

QuoteShift(q) == q.bid_price.off + q.ask_price.off

\* C11: the skew moves both prices toward reducing inventory: a cycle that
\* quotes with a long position quotes bid and ask below where they would be
\* at zero inventory, and above with a short position; at 0.9 x
\* max_position_size the shift is 0.45 in magnitude.
C11_SkewReducesInventory ==
    [][(cycles' # cycles /\ result'.quotes # << >>)
          => LET q == result'.quotes[1]
                 inventory == hft.position.quantity
             IN  /\ inventory > 0 => QuoteShift(q) < 0
                 /\ inventory < 0 => QuoteShift(q) > 0
                 /\ 10 * Abs(inventory) = 9 * max_position_size
                       => 100 * Abs(QuoteShift(q)) = 2 * 45 * PxQ]_vars

\* C12: the adverse-selection penalty (in tenths) is 0 while the adverse fill
\* ratio is at most the threshold, is (ratio - threshold) x 2 x penalty_factor
\* above it (0.8 for an excess of 0.2), is never negative, and is computed
\* over a window that holds at most FillWindow fills.
C12_AdversePenalty ==
    LET total == Len(hft.fills)
        adverse == adverse_fills(hft.fills)
        excess_pct_total == adverse * 100 - adverse_threshold_pct * total
        penalty == adverse_selection_penalty(hft.fills)
    IN  /\ total <= FillWindow
        /\ total <= nfills
        /\ penalty >= 0
        /\ excess_pct_total <= 0 => penalty = 0
        /\ excess_pct_total > 0 =>
              /\ penalty * 100 * total <= excess_pct_total * 2 * penalty_factor_x10
              /\ (penalty + 1) * 100 * total > excess_pct_total * 2 * penalty_factor_x10
        /\ (total > 0 /\ excess_pct_total = 20 * total) => penalty = 8

\* C12 witness: the window has slid (more fills applied than it holds) and the
\* ratio of the fills left in it is 0.2 above the threshold.
C12_Witness ==
    /\ nfills > FillWindow
    /\ Len(hft.fills) = FillWindow
    /\ adverse_fills(hft.fills) * 100 - adverse_threshold_pct * Len(hft.fills)
          = 20 * Len(hft.fills)
    /\ adverse_selection_penalty(hft.fills) = 8

in_regime_range(regime, volatility) ==
    CASE regime = "Low" -> volatility < 1000
      [] regime = "Normal" -> 1000 <= volatility /\ volatility <= 2000
      [] regime = "High" -> 2000 <= volatility /\ volatility <= 4000
      [] regime = "Extreme" -> volatility > 4000
      [] OTHER -> FALSE

\* Volatilities at and next to the three thresholds.
ThresholdVolatilities == {999, 1000, 1001, 1999, 2000, 2001, 3999, 4000, 4001}

\* C20: in every reachable VolatilityState the regime is the classification
\* of the current annualized volatility (below 10% Low, 10-20% Normal,
\* 20-40% High, above 40% Extreme), never one left from an earlier variance,
\* and every volatility value has one regime, the thresholds included (only
\* 20% lies in two of the stated ranges, Normal and High, and is High).
C20_RegimeOfCurrentVolatility ==
    LET volatility == annualized_volatility(hft.volatility.ewma_variance)
        regime == hft.volatility.regime
    IN  /\ regime = classify_regime(volatility)
        /\ in_regime_range(regime, volatility)
        /\ regime = "Low" <=> volatility < 1000
        /\ regime = "Extreme" <=> volatility > 4000
        /\ \A v \in ThresholdVolatilities \cup {volatility} :
              /\ in_regime_range(classify_regime(v), v)
              /\ \A other \in {"Low", "Normal", "High", "Extreme"} :
                    (other # classify_regime(v) /\ in_regime_range(other, v))
                        => v = 2000

\* C20 witness: an update has moved the volatility out of the Low range.
C20_Witness ==
    /\ cycles >= 2
    /\ hft.volatility.last_return # 0
    /\ hft.volatility.regime # "Low"
    /\ hft.volatility.regime
          = classify_regime(annualized_volatility(hft.volatility.ewma_variance))

---------------------------------------------------------------------------
(* The engine's numerics: mid prices of 0 and risk limits of 0 *)

\* Well-formed ticks (not crossed, positive sizes), one of them with a mid
\* price of 0, and a crossed one.
NumericTicks ==
    {Tick(98, 99, 200, 200), Tick(-1, 1, 200, 200), Tick(98, 103, 600, 200),
     Tick(100, 99, 200, 200)}

\* The ratios that have a limit for denominator.
LimitedFields == {"var_95", "drawdown", "leverage", "gross_exposure"}

NumericProcessMarketData == process_market_data_call(NumericTicks, {0})

\* The RiskSnapshot is computed afresh from one changed ratio and the
\* configured limits, any of which may be 0.
ComputeRiskSnapshot ==
    /\ \E f \in {"var_95", "leverage"}, v \in {0, MaxRatio},
          limits \in [LimitedFields -> {0, 1}] :
          LET in == [risk_in EXCEPT ![f] = v]
              snapshot == risk_snapshot(risk_metrics, in, limits)
          IN  /\ risk_metrics' = snapshot
              /\ risk_in' = IF snapshot.trigger = "failed" THEN risk_in ELSE in
    /\ UNCHANGED <<engine_vars, backtest_vars, dashboard_vars, server_vars>>

NumericNext == NumericProcessMarketData \/ ComputeRiskSnapshot

SpecNumeric == EngineInit /\ [][NumericNext]_vars

---------------------------------------------------------------------------
(* script.js: the dashboard *)

\* Values of the volatilityLevel input, times 100.
VolatilityLevels == {0, 2}

\* Math.random() returns k / RandSteps for a k in 0..RandSteps-1.  In the
\* dashboard's ticks a price is counted in 1/RandSteps of a currency unit and
\* a size in 1/RandSteps of a share.
RandSteps == 2

\* The seven Math.random() results one generateSampleMarketData call consumes:
\* all at their lowest, all at their highest, and a mixed draw.
Draws ==
    {[i \in 1..7 |-> 0],
     [i \in 1..7 |-> RandSteps - 1],
     [i \in 1..7 |-> IF i \in {1, 4, 5} THEN 0 ELSE RandSteps - 1]}

\* Values of the symbol input.
Symbols == {"NIFTY50", "BANKNIFTY"}

\* Date.now() over n successive calls of one handler, in milliseconds since
\* the first of them: it never runs backwards, and at most `elapsed`
\* milliseconds pass.
DateNow(n, elapsed) ==
    {now \in [1..n -> 0..elapsed] :
        /\ n > 0 => now[1] = 0
        /\ \A i \in 1..n - 1 : now[i] <= now[i + 1]}

\* The value of the volatilityLevel input is volatility / 100.
generateSampleMarketData(d, volatility, symbol, now) ==
    LET basePrice == 18450 * RandSteps + 100 * d[1]
    IN  [symbol |-> symbol,
         timestamp |-> now,
         last_price |-> basePrice
                          + TruncDiv((2 * d[2] - RandSteps) * basePrice * volatility,
                                     2 * RandSteps * 100),
         bid_price |-> basePrice - 2 * d[3],
         ask_price |-> basePrice + 2 * d[4],
         bid_size |-> 100 * RandSteps + 500 * d[5],
         ask_size |-> 100 * RandSteps + 500 * d[6],
         volume |-> 1000 * RandSteps + 5000 * d[7]]

\* historicalData with each new tick put in front of the earlier ones.
historicalData_unshift(draws, volatility, symbol, now) ==
    [i \in 1..Len(now) |->
        generateSampleMarketData(draws[Len(now) + 1 - i], volatility, symbol,
                                 now[Len(now) + 1 - i])]

\* for (i < n) historicalData.push(generateSampleMarketData()): the ticks in
\* the order they were generated.
historicalData(draws, volatility, symbol, now) ==
    [i \in 1..Len(now) |->
        generateSampleMarketData(draws[i], volatility, symbol, now[i])]

updateStatus(s, text) == [status |-> s, text |-> text]

\* priceData.length > 50
ChartCapacity == 50

\* updateCharts(marketData, result) on the lengths of the four buffers.  The
\* engine's result carries risk_metrics and latency_stats; with the Chart
\* objects null the first use of priceChart throws.
updateCharts(data, chartsReady) ==
    LET pushed == [data EXCEPT !.priceData = @ + 1, !.pnlData = @ + 1]
        shifted == IF pushed.priceData > ChartCapacity
                   THEN [pushed EXCEPT !.priceData = @ - 1,
                                       !.pnlData = Max(0, @ - 1)]
                   ELSE pushed
    IN  IF ~chartsReady
        THEN [data |-> shifted, threw |-> TRUE]
        ELSE [data |-> [shifted EXCEPT
                           !.volatilityData = Min(@ + 1, ChartCapacity),
                           !.latencyData = Min(@ + 1, ChartCapacity)],
              threw |-> FALSE]

\* updateMetrics simulates a trade with probability 0.15;
\* tradePnL = (Math.random() - 0.45) * 1000.
LiveTrades ==
    {[trade |-> FALSE, tradePnL |-> 0]}
        \cup {[trade |-> TRUE, tradePnL |-> (1000 * k) \div RandSteps - 450] :
                 k \in 0..RandSteps - 1}

\* updateMetrics(result): the counters, and the totalTrades and winRate
\* elements it writes when a trade is simulated.
updateMetrics(s, t) ==
    IF ~t.trade THEN s
    ELSE LET total == s.liveStats.totalTradesCount + 1
             winning == s.liveStats.winningTrades
                          + (IF t.tradePnL > 0 THEN 1 ELSE 0)
         IN  [s EXCEPT
                 !.liveStats = [cumulativePnL |-> @.cumulativePnL + t.tradePnL,
                                totalTradesCount |-> total,
                                winningTrades |-> winning],
                 !.display = [@ EXCEPT !.live = [totalTrades |-> total,
                                                 winRate |-> Reduced(<<winning, total>>)]]]

\* A call site that does not test engine.
engine_untested(e) == TRUE

\* `if (engine)`, `!engine`: the test in front of every call site.
has_engine(e) == e # "null"

\* A call of an engine method that hands the control back, by return or by
\* throw, only when it is over.  Each event carries the value of `engine` the
\* method was called on.
call_events_suspended(method, outcome) ==
    <<[event |-> "call", method |-> method, engine |-> engine]>>

\* A synchronous call of an engine method: it has returned or thrown before
\* the caller's next statement runs.
call_events(method, outcome) ==
    <<[event |-> "call", method |-> method, engine |-> engine],
      [event |-> outcome, method |-> method, engine |-> engine]>>

\* What the handlers that feed the engine read and write.
LiveState ==
    [hft |-> hft, result |-> result, market_data |-> market_data,
     chartData |-> chartData, liveStats |-> liveStats,
     display |-> backtest_display, calls |-> 0, threw |-> FALSE,
     engine_calls |-> << >>]

\* engine.process_market_data(marketData); updateCharts(marketData, result);
\* updateMetrics(result).  A call that throws ends the handler.
process_and_update(s, marketData, book_adjustment, t) ==
    LET out == process_market_data(s.hft, marketData, book_adjustment)
        failed == out.result.kind = "ValidationError"
        called == [s EXCEPT !.hft = out.state, !.result = out.result,
                            !.market_data = marketData, !.calls = @ + 1,
                            !.engine_calls =
                                @ \o call_events("process_market_data",
                                                 IF failed THEN "throw"
                                                 ELSE "return")]
        drawn == updateCharts(s.chartData, charts = "ready")
    IN  IF failed
        THEN [called EXCEPT !.threw = TRUE]
        ELSE IF drawn.threw
        THEN [called EXCEPT !.chartData = drawn.data, !.threw = TRUE]
        ELSE updateMetrics([called EXCEPT !.chartData = drawn.data], t)

\* The loop of the Generate Data handler.
RECURSIVE generate_loop(_, _, _, _)
generate_loop(s, ticks, trades, book_adjustment) ==
    IF ticks = << >> \/ s.threw THEN s
    ELSE generate_loop(process_and_update(s, Head(ticks), book_adjustment,
                                          Head(trades)),
                       Tail(ticks), Tail(trades), book_adjustment)

SetLiveState(s) ==
    /\ hft' = s.hft
    /\ result' = s.result
    /\ market_data' = s.market_data
    /\ chartData' = s.chartData
    /\ liveStats' = s.liveStats
    /\ backtest_display' = s.display
    /\ cycles' = cycles + s.calls
    /\ engine_calls' = s.engine_calls

\* BacktestEngine: the ticks replayed, in the order of the array, through a
\* pipeline of its own; processed holds the timestamps in processing order.
RECURSIVE replay(_, _, _, _, _)
replay(e, ticks, book_adjustment, quotes, processed) ==
    IF ticks = << >>
    THEN [completed |-> TRUE, quotes |-> quotes, processed |-> processed]
    ELSE LET out == process_market_data(e, Head(ticks), book_adjustment)
         IN  IF out.result.kind = "ValidationError"
             THEN [completed |-> FALSE, quotes |-> 0, processed |-> processed]
             ELSE replay(out.state, Tail(ticks), book_adjustment,
                         quotes + Len(out.result.quotes),
                         Append(processed, Head(ticks).timestamp))

\* engine.run_backtest(formattedData): one BacktestResult for a completed
\* run, and for a failed run no result at all.
run_backtest(ticks, book_adjustment) ==
    LET run == replay(InitEngine, ticks, book_adjustment, 0, << >>)
    IN  IF run.completed
        THEN [completed |-> TRUE,
              results |-> [ticks |-> Len(ticks), quotes |-> run.quotes],
              processed |-> run.processed]
        ELSE [completed |-> FALSE, results |-> << >>,
              processed |-> run.processed]

\* How the failed call ends in JavaScript: an exception, or no object.
FailedCalls == {"throws", "returns null"}

\* The eight Math.random() results showSimulatedBacktestResults consumes.
SimulatedDraws == {[i \in 1..8 |-> k] : k \in 0..RandSteps - 1}

showSimulatedBacktestResults(d) ==
    [totalReturn |-> Finite(<<4 * d[1] - RandSteps, 10 * RandSteps>>),
     sharpeRatio |-> Finite(<<4 * d[2] + RandSteps, 2 * RandSteps>>),
     maxDrawdown |-> Finite(<<3 * d[3] + RandSteps, 20 * RandSteps>>),
     profitFactor |-> Finite(<<10 * d[4] + 4 * RandSteps, 5 * RandSteps>>),
     calmarRatio |-> Finite(<<6 * d[5] + RandSteps, 2 * RandSteps>>),
     sortinoRatio |-> Finite(<<5 * d[6] + RandSteps, 2 * RandSteps>>),
     totalTrades |-> (500 * d[7]) \div RandSteps + 100,
     winRate |-> Finite(<<3 * d[8] + 5 * RandSteps, 10 * RandSteps>>)]

\* What a handler takes from outside the program: the values of the page's
\* inputs, the results of Math.random() and Date.now(), the book's state, and
\* the number of ticks the live engine is given in all.
PageInputs ==
    [draws |-> Draws, volatility |-> VolatilityLevels, symbols |-> {"NIFTY50"},
     book |-> BookAdjustments, trades |-> LiveTrades, elapsed |-> 0,
     batch |-> 0..MaxBatch, simple |-> -1..MaxDataPoints, ticks |-> MaxLiveTicks]

\* What the Run Backtest handler can generate and get back from
\* engine.run_backtest: every dataPoints input, every tick sequence.
backtest_runs(in) ==
    UNION {{[dataPoints |-> dataPoints, volatility |-> volatility,
             symbol |-> symbol,
             run |-> run_backtest(
                         historicalData(draws, volatility, symbol, now), adj)] :
               draws \in [1..dataPoints -> in.draws],
               now \in DateNow(dataPoints, in.elapsed)} :
           dataPoints \in in.batch, volatility \in in.volatility,
           symbol \in in.symbols, adj \in in.book}

BacktestRuns == backtest_runs(PageInputs)

Init ==
    /\ PageLoaded
    /\ hft = InitEngine
    /\ result = NoResult
    /\ market_data = NoTick
    /\ cycles = 0
    /\ nfills = 0
    /\ risk_in = NoRisk
    /\ risk_metrics = [risk_score |-> 0, trigger |-> "none"]
    /\ backtest_run = NoRun
    /\ backtest_display = NoDisplay

\* initApp: init() or the constructor throws and engine stays null, or
\* initCharts throws after engine is set, or all of it succeeds and the
\* Generate Data click is scheduled.
InitApp ==
    /\ app = "loading"
    /\ \E outcome \in {"init throws", "initCharts throws", "ready"} :
          /\ app' = IF outcome = "ready" THEN "ready" ELSE "failed"
          /\ engine' = IF outcome = "init throws" THEN "null" ELSE "ready"
          /\ charts' = IF outcome = "ready" THEN "ready" ELSE "null"
          /\ startupTimeout' = IF outcome = "ready" THEN "pending" ELSE "none"
    /\ UNCHANGED <<engine_vars, risk_vars, server_vars, backtest_vars, live_vars, isRunning,
                   timer_vars, status>>

\* The interval timer: dataGenerationInterval and the timers that are live.
Timers == [dataGenerationInterval |-> dataGenerationInterval,
           intervals |-> intervals]

\* startDataGeneration without its first line.
startDataGeneration_unguarded(t) ==
    [dataGenerationInterval |-> "set", intervals |-> t.intervals + 1]

\* startDataGeneration: setInterval unless dataGenerationInterval is set.
startDataGeneration(t) ==
    IF t.dataGenerationInterval # "null" THEN t
    ELSE [dataGenerationInterval |-> "set", intervals |-> t.intervals + 1]

\* stopDataGeneration: clearInterval of the timer dataGenerationInterval
\* refers to, if there is one.
stopDataGeneration(t) ==
    IF t.dataGenerationInterval # "null"
    THEN [dataGenerationInterval |-> "null", intervals |-> t.intervals - 1]
    ELSE t

SetTimers(t) ==
    /\ dataGenerationInterval' = t.dataGenerationInterval
    /\ intervals' = t.intervals

\* Click on Start Engine, startDataGeneration included.
StartEngine ==
    IF engine = "null"
    THEN UNCHANGED vars
    ELSE /\ isRunning' = TRUE
         /\ status' = updateStatus("running", "System Running")
         /\ SetTimers(startDataGeneration(Timers))
         /\ UNCHANGED <<engine_vars, risk_vars, server_vars, backtest_vars, live_vars, app,
                        engine, startupTimeout, charts>>

\* Click on Stop Engine, stopDataGeneration included.
StopEngine ==
    /\ isRunning' = FALSE
    /\ status' = updateStatus("stopped", "System Stopped")
    /\ SetTimers(stopDataGeneration(Timers))
    /\ UNCHANGED <<engine_vars, risk_vars, server_vars, backtest_vars, live_vars, app, engine,
                   startupTimeout, charts>>

\* One firing of an interval timer startDataGeneration has set.
timer_callback(in) ==
    /\ intervals > 0
    /\ cycles < in.ticks
    /\ IF ~isRunning \/ ~has_engine(engine)
       THEN UNCHANGED <<hft, result, market_data, cycles, live_vars,
                        backtest_display>>
       ELSE \E d \in in.draws, volatility \in in.volatility,
               symbol \in in.symbols, adj \in in.book, t \in in.trades :
               SetLiveState(process_and_update(
                   LiveState,
                   generateSampleMarketData(d, volatility, symbol, 0), adj, t))
    /\ UNCHANGED <<nfills, risk_vars, server_vars, backtest_run, page_vars>>

TimerTick == timer_callback(PageInputs)

\* The Generate Data handler: Math.min(dataPoints, 100) ticks, each handed to
\* the engine if there is one.
generateData(in) ==
    \E dataPoints \in in.batch, volatility \in in.volatility,
       symbol \in in.symbols, adj \in in.book :
       /\ cycles + Min(dataPoints, 100) <= in.ticks
       /\ \E draws \in [1..Min(dataPoints, 100) -> in.draws],
             now \in DateNow(Min(dataPoints, 100), in.elapsed),
             trades \in [1..Min(dataPoints, 100) -> in.trades] :
             IF ~has_engine(engine)
             THEN UNCHANGED <<hft, result, market_data, cycles, live_vars,
                              backtest_display>>
             ELSE SetLiveState(generate_loop(
                      LiveState,
                      historicalData(draws, volatility, symbol, now),
                      trades, adj))

\* Click on Generate Data.
generate_data_click(in) ==
    /\ generateData(in)
    /\ UNCHANGED <<nfills, risk_vars, server_vars, backtest_run, page_vars>>

GenerateData == generate_data_click(PageInputs)

\* initApp's timeout fires and clicks Generate Data.
startup_timeout(in) ==
    /\ startupTimeout = "pending"
    /\ startupTimeout' = "fired"
    /\ generateData(in)
    /\ UNCHANGED <<nfills, risk_vars, server_vars, backtest_run, app, engine, isRunning,
                   timer_vars, status, charts>>

StartupTimeout == startup_timeout(PageInputs)

\* Click on Run Backtest.  A run that fails, by exception or by returning no
\* object, is followed by showSimulatedBacktestResults; the BacktestResult's
\* statistics are numbers, so displaying them does not throw.
run_backtest_click(runs) ==
    IF ~has_engine(engine)
    THEN UNCHANGED vars
    ELSE /\ \E b \in runs :
               IF b.run.completed
               THEN /\ backtest_display' =
                           [source |-> "engine", stats |-> b.run.results,
                            live |-> "none"]
                    /\ backtest_run' =
                           [kind |-> "engine", dataPoints |-> b.dataPoints,
                            volatility |-> b.volatility,
                            outcome |-> "completed", reported |-> "engine",
                            processed |-> b.run.processed, trades |-> << >>]
                    /\ status' = updateStatus("running", "Backtest Complete")
                    /\ engine_calls' = call_events("run_backtest", "return")
               ELSE \E call \in FailedCalls, sim \in SimulatedDraws :
                    /\ backtest_display' =
                           [source |-> "simulated",
                            stats |-> showSimulatedBacktestResults(sim),
                            live |-> "none"]
                    /\ backtest_run' =
                           [kind |-> "engine", dataPoints |-> b.dataPoints,
                            volatility |-> b.volatility,
                            outcome |-> call, reported |-> "simulated",
                            processed |-> b.run.processed, trades |-> << >>]
                    /\ status' = updateStatus("running",
                                       "Backtest Complete (Simulated)")
                    /\ engine_calls' =
                           call_events("run_backtest",
                                       IF call = "throws" THEN "throw"
                                       ELSE "return")
         /\ UNCHANGED <<engine_vars, risk_vars, server_vars, chartData, liveStats, app,
                        engine, isRunning, timer_vars, startupTimeout,
                        charts>>

RunBacktest == run_backtest_click(BacktestRuns)

\* Click on Simple Backtest: the engine, if there is one, is tried with one
\* tick, then runSimpleBacktest runs and its result is displayed.
run_simple_backtest_click(in) ==
    /\ engine # "null" => cycles < in.ticks
    /\ \E volatility \in in.volatility :
          /\ IF ~has_engine(engine)
             THEN UNCHANGED <<hft, result, market_data, cycles, engine_calls>>
             ELSE \E d \in in.draws, symbol \in in.symbols, adj \in in.book :
                     LET testData ==
                             generateSampleMarketData(d, volatility, symbol, 0)
                         out == process_market_data(hft, testData, adj)
                     IN  /\ hft' = out.state
                         /\ result' = out.result
                         /\ market_data' = testData
                         /\ cycles' = cycles + 1
                         /\ engine_calls' =
                                call_events("process_market_data",
                                            IF out.result.kind = "ValidationError"
                                            THEN "throw" ELSE "return")
          /\ \E dataPoints \in in.simple :
                \E outcomes \in [1..Iterations(dataPoints) -> Outcomes] :
                    /\ backtest_run' =
                           [kind |-> "simple", dataPoints |-> dataPoints,
                            volatility |-> volatility,
                            outcome |-> "completed", reported |-> "simple",
                            processed |-> << >>, trades |-> trade_pnls(outcomes)]
                    /\ backtest_display' =
                           [source |-> "simple",
                            stats |-> runSimpleBacktest(outcomes),
                            live |-> "none"]
    /\ status' = updateStatus("running", "Simple Backtest Complete")
    /\ UNCHANGED <<nfills, risk_vars, server_vars, chartData, liveStats, app, engine,
                   isRunning, timer_vars, startupTimeout, charts>>

RunSimpleBacktest == run_simple_backtest_click(PageInputs)

\* Click on Reset System; the engine object itself is left as it is.
ResetSystem ==
    IF engine = "null"
    THEN UNCHANGED vars
    ELSE /\ isRunning' = FALSE
         /\ SetTimers(stopDataGeneration(Timers))
         /\ liveStats' = NoLiveStats
         /\ chartData' = NoChartData
         /\ backtest_display' =
                [source |-> "cleared", stats |-> << >>,
                 live |-> [totalTrades |-> 0, winRate |-> <<0, 1>>]]
         /\ status' = updateStatus("stopped", "System Reset")
         /\ UNCHANGED <<engine_vars, risk_vars, server_vars, backtest_run, app, engine,
                        startupTimeout, charts, engine_calls>>

Next ==
    \/ InitApp
    \/ StartupTimeout
    \/ StartEngine
    \/ StopEngine
    \/ TimerTick
    \/ GenerateData
    \/ RunBacktest
    \/ ResetSystem

Spec == Init /\ [][Next]_vars

\* The Simple Backtest button on its own.
SimpleNext == RunSimpleBacktest

SpecSimple == Init /\ [][SimpleNext]_vars

---------------------------------------------------------------------------
(* script.js: the handlers that call the engine, with the symbol input and *)
(* the clock, on one draw of well-formed ticks and no simulated trades     *)

MaxFeedTicks == 2

MaxElapsed == 1

\* for (let i = 0; i < 10; i++) testData.push(generateSampleMarketData())
TestPoints == 10

FeedInputs ==
    [draws |-> {[i \in 1..7 |-> RandSteps - 1]}, volatility |-> {0},
     symbols |-> Symbols, book |-> {0},
     trades |-> {[trade |-> FALSE, tradePnL |-> 0]}, elapsed |-> MaxElapsed,
     batch |-> 0..MaxBatch, simple |-> {0}, ticks |-> MaxFeedTicks]

FeedBacktestRuns == backtest_runs(FeedInputs)

\* How engine.run_backtest can end for the ten ticks the Test WASM handler
\* generates.
test_outcomes(in) ==
    {run_backtest(historicalData(draws, volatility, symbol, now), adj).completed :
        draws \in [1..TestPoints -> in.draws],
        now \in DateNow(TestPoints, in.elapsed),
        volatility \in in.volatility, symbol \in in.symbols, adj \in in.book}

FeedTestOutcomes == test_outcomes(FeedInputs)

\* Click on Test WASM: ten ticks go to engine.run_backtest and the outcome
\* is logged; nothing on the page changes.
test_wasm_backtest_click(outcomes) ==
    IF ~has_engine(engine)
    THEN UNCHANGED vars
    ELSE /\ \E completed \in outcomes :
               IF completed
               THEN engine_calls' = call_events("run_backtest", "return")
               ELSE \E call \in FailedCalls :
                       engine_calls' =
                           call_events("run_backtest",
                                       IF call = "throws" THEN "throw"
                                       ELSE "return")
         /\ UNCHANGED <<engine_vars, risk_vars, server_vars, backtest_vars, chartData,
                        liveStats, page_vars>>

FeedStartupTimeout == startup_timeout(FeedInputs)

FeedTimerTick == timer_callback(FeedInputs)

FeedGenerateData == generate_data_click(FeedInputs)

FeedRunBacktest == run_backtest_click(FeedBacktestRuns)

FeedRunSimpleBacktest == run_simple_backtest_click(FeedInputs)

TestWasmBacktest == test_wasm_backtest_click(FeedTestOutcomes)

FeedNext ==
    \/ InitApp
    \/ FeedStartupTimeout
    \/ StartEngine
    \/ StopEngine
    \/ FeedTimerTick
    \/ FeedGenerateData
    \/ FeedRunBacktest
    \/ FeedRunSimpleBacktest
    \/ TestWasmBacktest
    \/ ResetSystem

SpecFeed == Init /\ [][FeedNext]_vars

---------------------------------------------------------------------------
(* script.js: every handler that calls a method of the engine *)

CallInputs ==
    [draws |-> {[i \in 1..7 |-> RandSteps - 1]}, volatility |-> {0},
     symbols |-> {"NIFTY50"}, book |-> {0},
     trades |-> {[trade |-> FALSE, tradePnL |-> 0]}, elapsed |-> 0,
     batch |-> 0..MaxBatch, simple |-> {0}, ticks |-> MaxLiveTicks]

CallBacktestRuns == backtest_runs(CallInputs)

CallTestOutcomes == test_outcomes(CallInputs)

\* Click on Benchmark, Simulate FPGA or Simulate GPU: the engine's method is
\* called and what it returns is logged.
engine_method_click(method) ==
    IF ~has_engine(engine)
    THEN UNCHANGED vars
    ELSE /\ \E outcome \in {"return", "throw"} :
               engine_calls' = call_events(method, outcome)
         /\ UNCHANGED <<engine_vars, risk_vars, server_vars, backtest_vars, chartData,
                        liveStats, page_vars>>

BenchmarkPerformance == engine_method_click("benchmark_performance")

SimulateFPGA == engine_method_click("simulate_fpga_acceleration")

SimulateGPU == engine_method_click("simulate_gpu_acceleration")

CallStartupTimeout == startup_timeout(CallInputs)

CallTimerTick == timer_callback(CallInputs)

CallGenerateData == generate_data_click(CallInputs)

CallRunBacktest == run_backtest_click(CallBacktestRuns)

CallRunSimpleBacktest == run_simple_backtest_click(CallInputs)

CallTestWasmBacktest == test_wasm_backtest_click(CallTestOutcomes)

CallNext ==
    \/ InitApp
    \/ CallStartupTimeout
    \/ StartEngine
    \/ StopEngine
    \/ CallTimerTick
    \/ CallGenerateData
    \/ CallRunBacktest
    \/ CallRunSimpleBacktest
    \/ CallTestWasmBacktest
    \/ BenchmarkPerformance
    \/ SimulateFPGA
    \/ SimulateGPU
    \/ ResetSystem

SpecCalls == Init /\ [][CallNext]_vars

---------------------------------------------------------------------------
(* script.js: updateCharts on the contents of the four buffers *)

NoChartBuffers ==
    [priceData |-> << >>, pnlData |-> << >>, volatilityData |-> << >>,
     latencyData |-> << >>]

\* The n-th tick to arrive; its last_price is n, so that a buffer shows which
\* ticks it holds.
ChartTick(n) == Tick(n, n + 1, 100, 100)

\* What the engine returned for the n-th tick, with or without risk_metrics
\* and latency_stats.
ChartResult(n, risk, latency) ==
    [volatility |-> n,
     risk_metrics |-> [present |-> risk, net_exposure |-> n],
     latency_stats |-> [present |-> latency, avg_processing |-> n,
                        avg_network |-> n]]

\* x.push(value); if (x.length > 50) x.shift()
push_capped(buffer, value) ==
    IF Len(buffer) + 1 > ChartCapacity THEN Tail(Append(buffer, value))
    ELSE Append(buffer, value)

\* updateCharts without the shift of priceData and pnlData.
updateChartsData_unshifted(data, marketData, res, chartsReady) ==
    [data |-> [data EXCEPT !.priceData = Append(@, marketData.last_price)],
     threw |-> ~chartsReady]

\* updateCharts(marketData, result) on the contents of the buffers: pnlData
\* gets an entry only from a result with risk_metrics, and is shifted
\* whenever priceData is; with the Chart objects null the first use of
\* priceChart throws.
updateChartsData(data, marketData, res, chartsReady) ==
    LET pushed == [data EXCEPT
                      !.priceData = Append(@, marketData.last_price),
                      !.pnlData = IF res.risk_metrics.present
                                  THEN Append(@, res.risk_metrics.net_exposure)
                                  ELSE @]
        shifted == IF Len(pushed.priceData) > ChartCapacity
                   THEN [pushed EXCEPT
                            !.priceData = Tail(@),
                            !.pnlData = IF @ = << >> THEN @ ELSE Tail(@)]
                   ELSE pushed
        avgLatency == (res.latency_stats.avg_processing
                         + res.latency_stats.avg_network) \div 2
    IN  IF ~chartsReady
        THEN [data |-> shifted, threw |-> TRUE]
        ELSE [data |-> [shifted EXCEPT
                           !.volatilityData = push_capped(@, res.volatility),
                           !.latencyData =
                               IF res.latency_stats.present
                               THEN push_capped(@, avgLatency)
                               ELSE @],
              threw |-> FALSE]

\* The buffers after the ticks numbered k to n, each with a full result;
\* every call throws exactly when the Chart objects are null.
RECURSIVE charts_after(_, _, _, _)
charts_after(data, k, n, chartsReady) ==
    IF k > n THEN data
    ELSE LET drawn == updateChartsData(data, ChartTick(k),
                                       ChartResult(k, TRUE, TRUE), chartsReady)
         IN  IF drawn.threw = ~chartsReady
             THEN charts_after(drawn.data, k + 1, n, chartsReady)
             ELSE data

\* Numbers of ticks that have arrived when the run begins: none, or about as
\* many as a buffer holds.
ChartStarts == {0} \cup ((ChartCapacity - 2)..(ChartCapacity + 1))

ChartInit ==
    /\ hft = InitEngine
    /\ cycles = 0
    /\ nfills = 0
    /\ risk_in = NoRisk
    /\ risk_metrics = [risk_score |-> 0, trigger |-> "none"]
    /\ backtest_run = NoRun
    /\ backtest_display = NoDisplay
    /\ engine = "ready"
    /\ isRunning = FALSE
    /\ dataGenerationInterval = "null"
    /\ intervals = 0
    /\ status = [status |-> "initial", text |-> ""]
    /\ startupTimeout = "none"
    /\ liveStats = NoLiveStats
    /\ engine_calls = << >>
    /\ chat = << >>
    /\ \E initCharts \in {"ready", "null"} :
          /\ charts = initCharts
          /\ app = IF initCharts = "ready" THEN "ready" ELSE "failed"
          /\ \E n \in ChartStarts :
                /\ market_data = ChartTick(n)
                /\ result = ChartResult(n, TRUE, TRUE)
                /\ chartData = charts_after(NoChartBuffers, 1, n,
                                            initCharts = "ready")

\* One call of updateCharts, for the next tick and what the engine returned
\* for it.
UpdateCharts ==
    /\ cycles < MaxCycles
    /\ \E risk \in BOOLEAN, latency \in BOOLEAN :
          LET n == market_data.last_price + 1
              res == ChartResult(n, risk, latency)
          IN  /\ market_data' = ChartTick(n)
              /\ result' = res
              /\ chartData' = updateChartsData(chartData, ChartTick(n), res,
                                               charts = "ready").data
    /\ cycles' = cycles + 1
    /\ UNCHANGED <<hft, nfills, risk_vars, server_vars, backtest_vars, page_vars, liveStats,
                   engine_calls>>

\* resetAllCharts: the four arrays are emptied.
ResetAllCharts ==
    /\ chartData' = NoChartBuffers
    /\ UNCHANGED <<engine_vars, risk_vars, server_vars, backtest_vars, page_vars, liveStats,
                   engine_calls>>

ChartNext == UpdateCharts \/ ResetAllCharts

SpecCharts == ChartInit /\ [][ChartNext]_vars

---------------------------------------------------------------------------
(* part_001: the chat endpoint of the server *)

MaxRequests == 2        \* POST /chat requests per run

UpperCase ==
    <<"A", "B", "C", "D", "E", "F", "G", "H", "I", "J", "K", "L", "M", "N",
      "O", "P", "Q", "R", "S", "T", "U", "V", "W", "X", "Y", "Z">>

LowerCase ==
    <<"a", "b", "c", "d", "e", "f", "g", "h", "i", "j", "k", "l", "m", "n",
      "o", "p", "q", "r", "s", "t", "u", "v", "w", "x", "y", "z">>

\* A string is the sequence of its characters.
toLowerCase(s) ==
    [i \in 1..Len(s) |->
        IF \E k \in 1..Len(UpperCase) : UpperCase[k] = s[i]
        THEN LowerCase[CHOOSE k \in 1..Len(UpperCase) : UpperCase[k] = s[i]]
        ELSE s[i]]

\* s.includes(k)
includes(s, k) ==
    \E i \in 0..Len(s) - Len(k) : SubSeq(s, i + 1, i + Len(k)) = k

String(chars) == [type |-> "string", chars |-> chars]

Undefined == [type |-> "undefined"]

Number(n) == [type |-> "number", value |-> n]

\* The keywords of the if-else chain, in its order.
KeywordGroups ==
    <<[reply |-> "hello",
       keywords |-> {<<"h", "e", "l", "l", "o">>, <<"h", "i">>}],
      [reply |-> "start",
       keywords |-> {<<"s", "t", "a", "r", "t">>, <<"r", "u", "n">>}],
      [reply |-> "backtest",
       keywords |-> {<<"b", "a", "c", "k", "t", "e", "s", "t">>,
                     <<"t", "e", "s", "t">>}],
      [reply |-> "metrics",
       keywords |-> {<<"m", "e", "t", "r", "i", "c", "s">>,
                     <<"p", "e", "r", "f", "o", "r", "m", "a", "n", "c", "e">>}],
      [reply |-> "latency",
       keywords |-> {<<"l", "a", "t", "e", "n", "c", "y">>,
                     <<"s", "p", "e", "e", "d">>}],
      [reply |-> "risk",
       keywords |-> {<<"r", "i", "s", "k">>, <<"v", "a", "r">>}],
      [reply |-> "order book",
       keywords |-> {<<"o", "r", "d", "e", "r", " ", "b", "o", "o", "k">>,
                     <<"l", "2">>}],
      [reply |-> "volatility",
       keywords |-> {<<"v", "o", "l", "a", "t", "i", "l", "i", "t", "y">>,
                     <<"v", "o", "l">>}],
      [reply |-> "help",
       keywords |-> {<<"h", "e", "l", "p">>,
                     <<"w", "h", "a", "t", " ", "c", "a", "n", " ", "y", "o",
                       "u", " ", "d", "o">>}]>>

\* `!message`: undefined, the empty string and 0 are falsy.
falsy(message) ==
    \/ message.type = "undefined"
    \/ message.type = "string" /\ message.chars = << >>
    \/ message.type = "number" /\ message.value = 0

\* The if-else chain from its g-th branch on.
RECURSIVE reply_from(_, _, _)
reply_from(g, lowerMessage, message) ==
    IF g > Len(KeywordGroups)
    THEN [reply |-> "echo", echo |-> message.chars]
    ELSE IF \E k \in KeywordGroups[g].keywords : includes(lowerMessage, k)
    THEN [reply |-> KeywordGroups[g].reply, echo |-> << >>]
    ELSE reply_from(g + 1, lowerMessage, message)

\* app.post('/chat'): the responses one request gets.  message.toLowerCase
\* exists on strings only; for any other value the call throws a TypeError
\* before the handler has sent anything, and Express answers the request with
\* status 500.
post_chat(message) ==
    IF falsy(message)
    THEN <<[status |-> 400, error |-> "Message is required"]>>
    ELSE IF message.type # "string"
    THEN <<[status |-> 500, thrown |-> "TypeError"]>>
    ELSE <<[status |-> 200,
            reply |-> reply_from(1, toLowerCase(message.chars), message)]>>

\* The message field of request bodies: absent, empty, with keywords of one
\* or two groups in either case, with none, and not a string.
ChatMessages ==
    {Undefined,
     String(<< >>),
     String(<<"H", "i">>),
     String(<<"t", "h", "i", "s">>),
     String(<<"t", "e", "s", "t", " ", "r", "u", "n">>),
     String(<<"m", "e", "t", "r", "i", "c", "s">>),
     String(<<"s", "p", "e", "e", "d">>),
     String(<<"V", "a", "R">>),
     String(<<"L", "2">>),
     String(<<"v", "o", "l">>),
     String(<<"h", "e", "l", "p">>),
     String(<<"O", "K">>),
     Number(42)}

\* One POST /chat request and the responses it gets.
PostChat ==
    /\ Len(chat) < MaxRequests
    /\ \E message \in ChatMessages :
          chat' = Append(chat, [message |-> message,
                                responses |-> post_chat(message)])
    /\ UNCHANGED <<engine_vars, risk_vars, backtest_vars, dashboard_vars>>

ChatNext == PostChat

SpecChat == Init /\ [][ChatNext]_vars

---------------------------------------------------------------------------
(* Properties of the dashboard *)

FailedRun == backtest_run.kind = "engine" /\ backtest_run.outcome \in FailedCalls

\* C4: a backtest run is all-or-nothing: a completed run reports exactly its
\* one BacktestResult, and a failed run reports no backtest statistics.
C4_AllOrNothing ==
    /\ (backtest_run.kind = "engine" /\ backtest_run.outcome = "completed")
          => backtest_run.reported = "engine"
    /\ FailedRun => backtest_run.reported = "none"

IsNumber(x) == x.kind # "NaN"

\* C5: a backtest with zero price movement and no trade (an empty sequence
\* included) reports total_return 0, max_drawdown 0, Sharpe 0, and no NaN.
C5_FlatRunIsZero ==
    (/\ backtest_run.kind = "simple"
     /\ backtest_run.volatility = 0
     /\ backtest_display.stats.totalTrades = 0)
    => LET st == backtest_display.stats
       IN  /\ st.totalReturn = Zero
           /\ st.maxDrawdown = Zero
           /\ st.sharpeRatio = Zero
           /\ \A f \in {"totalReturn", "sharpeRatio", "maxDrawdown", "profitFactor",
                         "calmarRatio", "sortinoRatio", "winRate"} : IsNumber(st[f])

\* C5 witness: a run over a non-empty sequence with volatility 0 in which no
\* trade happened.
C5_Witness ==
    /\ backtest_run.kind = "simple"
    /\ backtest_run.volatility = 0
    /\ backtest_run.dataPoints > 1
    /\ backtest_display.stats.totalTrades = 0
    /\ backtest_display.stats.totalReturn = Zero

\* C17: after a Stop Engine click and until the next Start Engine click no
\* tick is passed to engine.process_market_data.
C17_StopHaltsTicks ==
    [][(~isRunning /\ status = updateStatus("stopped", "System Stopped"))
          => cycles' = cycles]_vars

\* C18: a Reset System click leaves the engine as a freshly constructed one
\* and the trade counters, cumulative PnL and chart buffers empty or zero.
C18_ResetClearsAll ==
    [][ResetSystem
          => /\ hft' = InitEngine
             /\ liveStats' = NoLiveStats
             /\ chartData' = NoChartData]_vars

\* Every call in the log has returned or thrown before the next one begins,
\* and none is still open at the end.
Sequential(log) ==
    /\ Len(log) % 2 = 0
    /\ \A i \in 1..Len(log) :
          IF i % 2 = 1
          THEN /\ log[i].event = "call"
               /\ log[i + 1].method = log[i].method
          ELSE log[i].event \in {"return", "throw"}

CallsOf(log, method) ==
    Cardinality({i \in 1..Len(log) :
                    log[i].event = "call" /\ log[i].method = method})

C15_OneSymbolPerEngine ==
    [][(cycles > 0 /\ cycles' # cycles)
          => market_data'.symbol = market_data.symbol]_vars

gross_profit(trades) == SumSeq([i \in 1..Len(trades) |-> Max(trades[i], 0)])

gross_loss(trades) == SumSeq([i \in 1..Len(trades) |-> Max(-trades[i], 0)])

winning_trades(trades) == Cardinality({i \in 1..Len(trades) : trades[i] > 0})

\* C21: the backtest statistics follow their definitions for every sequence
\* of trade outcomes: profit_factor = gross_profit / gross_loss and
\* win_rate = winning_trades / total_trades.
C21_StatisticsFollowDefinitions ==
    backtest_run.kind = "simple" =>
        LET trades == backtest_run.trades
            st == backtest_display.stats
        IN  /\ st.totalTrades = Len(trades)
            /\ Len(trades) > 0
                  => st.winRate = Finite(<<winning_trades(trades), Len(trades)>>)
            /\ gross_loss(trades) > 0
                  => st.profitFactor
                        = Finite(<<gross_profit(trades), gross_loss(trades)>>)

\* C23: after any sequence of Start, Stop and Reset clicks at most one
\* interval timer is live, dataGenerationInterval refers to it, and isRunning
\* is true exactly when dataGenerationInterval is not null; a repeated Start
\* does not create a second timer.
C23_OneIntervalTimer ==
    /\ intervals <= 1
    /\ (dataGenerationInterval # "null") <=> (intervals = 1)
    /\ isRunning <=> (dataGenerationInterval # "null")

\* C23 witness: after a Reset the engine was started again, one interval
\* timer is live and it has fired.
C23_Witness ==
    /\ isRunning
    /\ intervals = 1
    /\ dataGenerationInterval = "set"
    /\ backtest_display.source = "cleared"
    /\ cycles >= 1

EngineMethods ==
    {"process_market_data", "run_backtest", "benchmark_performance",
     "simulate_fpga_acceleration", "simulate_gpu_acceleration"}

\* C24: no method of the engine (process_market_data, run_backtest,
\* benchmark_performance, simulate_fpga_acceleration,
\* simulate_gpu_acceleration) is called while engine is null, a failed init()
\* included: every call a handler makes is made on an engine that is not
\* null, and while engine is null no handler makes a call.
C24_NoCallOnNullEngine ==
    /\ \A i \in DOMAIN engine_calls :
          /\ engine_calls[i].method \in EngineMethods
          /\ engine_calls[i].engine # "null"
    /\ engine = "null" => engine_calls = << >>

\* C24 witness: initApp failed after the engine was constructed, and a
\* handler has called a method of that engine.
C24_Witness ==
    /\ app = "failed"
    /\ engine # "null"
    /\ CallsOf(engine_calls, "simulate_gpu_acceleration") = 1

\* C25: updateCharts is never executed while priceChart, volatilityChart or
\* latencyChart is null: whenever engine is not null initCharts has
\* completed, also when initApp fails part-way, and the chart buffers are
\* written only with the Chart objects in place.
C25_ChartsBeforeEngine ==
    /\ engine # "null" => charts = "ready"
    /\ chartData.priceData > 0 => charts = "ready"

\* The buffer holds the ticks that arrived last, up to the tick numbered
\* last, one after the other.
MostRecent(buffer, last) ==
    \A i \in 1..Len(buffer) : buffer[i] = last - Len(buffer) + i

\* The buffer holds its entries in the order the ticks arrived.
ArrivalOrder(buffer) ==
    \A i \in 1..Len(buffer) - 1 : buffer[i] < buffer[i + 1]

\* At most 50 entries in priceData, volatilityData and latencyData, the most
\* recent ones in arrival order.
buffers_bounded(data, last) ==
    /\ Len(data.priceData) <= ChartCapacity
    /\ Len(data.volatilityData) <= ChartCapacity
    /\ Len(data.latencyData) <= ChartCapacity
    /\ MostRecent(data.priceData, last)
    /\ ArrivalOrder(data.volatilityData)
    /\ ArrivalOrder(data.latencyData)

\* C26 as stated: after every updateCharts call priceData, volatilityData and
\* latencyData hold at most 50 entries, the most recent ones in arrival
\* order, and pnlData holds exactly as many entries as priceData, with
\* pnlData[i] and priceData[i] from the same tick.
C26_ChartBuffers ==
    /\ buffers_bounded(chartData, market_data.last_price)
    /\ Len(chartData.pnlData) = Len(chartData.priceData)
    /\ chartData.pnlData = chartData.priceData

\* C26 amended: after every updateCharts call priceData, volatilityData and
\* latencyData hold at most 50 entries, the most recent ones in arrival
\* order.  pnlData gets an entry only from a result that carries
\* risk_metrics: if its entries matched priceData's before the call and the
\* result carries risk_metrics they match after it, and a result without
\* risk_metrics adds no entry to pnlData.
C26_ChartBuffersAmended ==
    [][/\ buffers_bounded(chartData', market_data'.last_price)
       /\ Len(chartData'.pnlData) <= Len(chartData'.priceData)
       /\ (/\ cycles' # cycles
           /\ result'.risk_metrics.present
           /\ chartData.pnlData = chartData.priceData)
             => chartData'.pnlData = chartData'.priceData
       /\ (cycles' # cycles /\ ~result'.risk_metrics.present)
             => Len(chartData'.pnlData) <= Len(chartData.pnlData)]_vars

\* C26 witness: updateCharts has run on full buffers: the oldest ticks are
\* gone, 50 are left, and pnlData matches priceData.
C26_Witness ==
    /\ cycles >= 2
    /\ Len(chartData.priceData) = ChartCapacity
    /\ chartData.priceData[1] > 2
    /\ Len(chartData.volatilityData) = ChartCapacity
    /\ result.risk_metrics.present
    /\ chartData.pnlData = chartData.priceData

\* C27: the status indicator shows 'running' only while isRunning is true.
C27_RunningStatusOnlyWhileRunning ==
    status.status = "running" => isRunning

\* C28: every tick generateSampleMarketData produces is well-formed, for
\* every value Math.random() can return in [0, 1): bid_price < ask_price
\* strictly, bid_size and ask_size at least 100, volume at least 1000.
C28_GeneratedTickWellFormed ==
    market_data # NoTick =>
        /\ market_data.bid_price < market_data.ask_price
        /\ market_data.bid_size >= 100 * RandSteps
        /\ market_data.ask_size >= 100 * RandSteps
        /\ market_data.volume >= 1000 * RandSteps

IsFinite(x) == x.kind = "finite"

\* C29: runSimpleBacktest returns only finite numbers: maxDrawdown lies in
\* [0, 1), winRate in [0, 1] with winningTrades <= totalTrades, and
\* sharpeRatio, profitFactor, calmarRatio and sortinoRatio are never NaN or
\* infinite.
C29_SimpleBacktestFinite ==
    backtest_run.kind = "simple" =>
        LET st == backtest_display.stats
        IN  /\ \A f \in {"totalReturn", "sharpeRatio", "maxDrawdown",
                         "profitFactor", "calmarRatio", "sortinoRatio",
                         "winRate"} : IsFinite(st[f])
            /\ st.maxDrawdown.value[1] >= 0
            /\ st.maxDrawdown.value[1] < st.maxDrawdown.value[2]
            /\ st.winRate.value[1] >= 0
            /\ st.winRate.value[1] <= st.winRate.value[2]
            /\ winning_trades(backtest_run.trades) <= st.totalTrades

\* The first keyword group with a keyword in the message, or the echo.
first_matching_group(message) ==
    LET lower == toLowerCase(message.chars)
        matching == {g \in 1..Len(KeywordGroups) :
                        \E k \in KeywordGroups[g].keywords : includes(lower, k)}
    IN  IF matching = {} THEN "echo"
        ELSE KeywordGroups[CHOOSE g \in matching : \A h \in matching : g <= h].reply

\* C30: every POST /chat request receives exactly one response: status 400
\* with an error and no reply when message is missing or empty, otherwise one
\* reply chosen by the first matching keyword group in the fixed order, with
\* the echo of the message when none matches; a request's response does not
\* depend on the requests before it.
C30_OneReplyPerChat ==
    \A i \in DOMAIN chat :
        LET message == chat[i].message
            responses == chat[i].responses
        IN  /\ Len(responses) = 1
            /\ IF message.type = "undefined"
                  \/ (message.type = "string" /\ message.chars = << >>)
               THEN /\ responses[1].status = 400
                    /\ "error" \in DOMAIN responses[1]
                    /\ "reply" \notin DOMAIN responses[1]
               ELSE /\ responses[1].status = 200
                    /\ "reply" \in DOMAIN responses[1]
                    /\ message.type = "string" =>
                          /\ responses[1].reply.reply = first_matching_group(message)
                          /\ responses[1].reply.reply = "echo"
                                => responses[1].reply.echo = message.chars
            /\ \A j \in DOMAIN chat :
                  chat[j].message = message => chat[j].responses = responses

=============================================================================
